---------------------------- MODULE Spec2Model ----------------------------
(***************************************************************************)
(* A model of rzboard_flash_util (src/flash_utils/flash.py): one run of    *)
(* FlashUtil(), from the parsing of the command line to the end of the     *)
(* process.  The run is sequential.  Every call on the serial port, every  *)
(* line printed, the subprocess call and the exit are recorded, in order,  *)
(* in the history variable trace.                                          *)
(*                                                                         *)
(* Byte strings are TLA+ strings ("\r" is the carriage return, "\n" the    *)
(* line feed); a line returned by readline() is a sequence of characters,  *)
(* so that the replace() calls of line 472 are computed, not assumed.      *)
(***************************************************************************)
EXTENDS Integers, Sequences, FiniteSets, TLC

VARIABLES
    parse_exit,           \* what argparse meets in sys.argv that ends the run in parse_args()
    args,                 \* self.__args, the parsed namespace
    files,                \* the paths for which os.path.isfile() is true
    flash_writer_image,   \* self.flash_writer_image
    bl2_image,            \* self.bl2_image
    fip_image,            \* self.fip_image
    rootfs_image,         \* self.rootfs_image
    pc,                   \* where the run is
    plan,                 \* the methods __init__ has still to call, the running one first
    script,               \* the steps the running method has still to take
    serial_port,          \* self.__serial_port: "none" until serial.Serial() returned
    waiting,              \* the delimiter of the blocking read in progress, "" when none
    host,                 \* what __extract_adb found on the host, <<>> until it ran
    device_ip_address,    \* self.__device_ip_address
    returncode,           \* fastboot_process.returncode, <<>> until the subprocess ended
    exit_code,            \* the exit status of the process, <<>> while it runs
    trace                 \* history: every observable event of the run, in order

vars == <<parse_exit, args, files, flash_writer_image, bl2_image, fip_image,
          rootfs_image, pc, plan, script, serial_port, waiting, host,
          device_ip_address, returncode, exit_code, trace>>

---------------------------------------------------------------------------
(* Module constants of flash.py and the values the inputs are drawn from.  *)

FLASH_WRITER_FILE_DEFAULT == "Flash_Writer_SCIF_rzboard.mot"
BL2_FILE_DEFAULT == "bl2_bp-rzboard.srec"
FIP_FILE_DEFAULT == "fip-rzboard.srec"
CORE_IMAGE_FILE_DEFAULT == "avnet-core-image-rzboard.wic"

\* self.__script_dir (line 38): the directory of the main script.
script_dir == "/opt/rzboard"

\* An optional argument that was not given (argparse stores None).  The code
\* only tests these for truth, and None and "" are both false in Python.
NotGiven == ""

Truthy(s) == s # NotGiven

\* The values of the image arguments in the runs explored.
WriterOverrides == {NotGiven, "/ovr/writer.mot"}
Bl2Overrides == {NotGiven, "/ovr/bl2.srec"}
FipOverrides == {NotGiven, "/ovr/fip.srec"}
RootfsOverrides == {NotGiven, "/ovr/rootfs.wic"}
ImagePaths == {NotGiven, "/images"}
StaticIPs == {"", "192.168.1.99"}

\* Every namespace parse_args() can return, over the values above
\* (lines 116-221; the serial port name and the baud rate are passed to
\* serial.Serial() untouched and are left out).
ArgSpace ==
    [bootloader : BOOLEAN, rootfs : BOOLEAN, full : BOOLEAN,
     flash_writer_image_override : WriterOverrides,
     bl2_image_override : Bl2Overrides,
     fip_image_override : FipOverrides,
     rootfs_image_override : RootfsOverrides,
     image_path : ImagePaths,
     staticIP : StaticIPs,
     qspi : BOOLEAN,
     debug : BOOLEAN]

\* The ways parse_args() (line 227) ends the run itself: -h/--help and
\* --version/-v print and exit 0, an unrecognized argument is an error.
ParseExits == {"none", "help", "version", "unrecognized"}

\* Exit statuses of the fastboot subprocess (shell=True: a negative number
\* is a signal).
ReturnCodes == {0, 1, 0 - 9}

\* sys.platform
Platforms == {"linux", "darwin", "win32", "freebsd"}

---------------------------------------------------------------------------
(* Paths.                                                                  *)

\* Mutant of handle_path_overrides: the image directory is applied first
\* and the individual overrides after it, so that an override wins.
handle_path_overrides_override_wins(a) ==
    LET base == IF Truthy(a.image_path) THEN a.image_path ELSE script_dir
    IN  [flash_writer_image |->
             IF Truthy(a.flash_writer_image_override)
             THEN a.flash_writer_image_override
             ELSE base \o "/" \o FLASH_WRITER_FILE_DEFAULT,
         bl2_image |->
             IF Truthy(a.bl2_image_override)
             THEN a.bl2_image_override
             ELSE base \o "/" \o BL2_FILE_DEFAULT,
         fip_image |->
             IF Truthy(a.fip_image_override)
             THEN a.fip_image_override
             ELSE base \o "/" \o FIP_FILE_DEFAULT,
         rootfs_image |->
             IF Truthy(a.rootfs_image_override)
             THEN a.rootfs_image_override
             ELSE base \o "/" \o CORE_IMAGE_FILE_DEFAULT]

\* The four image paths as handle_path_overrides() leaves them, as a function
\* of the namespace a (lines 40-43 set the defaults, lines 84-98 override).
handle_path_overrides(a) ==
    IF Truthy(a.image_path)
    THEN [flash_writer_image |-> a.image_path \o "/" \o FLASH_WRITER_FILE_DEFAULT,
          bl2_image          |-> a.image_path \o "/" \o BL2_FILE_DEFAULT,
          fip_image          |-> a.image_path \o "/" \o FIP_FILE_DEFAULT,
          rootfs_image       |-> a.image_path \o "/" \o CORE_IMAGE_FILE_DEFAULT]
    ELSE [flash_writer_image |->
              IF Truthy(a.flash_writer_image_override)
              THEN a.flash_writer_image_override
              ELSE script_dir \o "/" \o FLASH_WRITER_FILE_DEFAULT,
          bl2_image |->
              IF Truthy(a.bl2_image_override)
              THEN a.bl2_image_override
              ELSE script_dir \o "/" \o BL2_FILE_DEFAULT,
          fip_image |->
              IF Truthy(a.fip_image_override)
              THEN a.fip_image_override
              ELSE script_dir \o "/" \o FIP_FILE_DEFAULT,
          rootfs_image |->
              IF Truthy(a.rootfs_image_override)
              THEN a.rootfs_image_override
              ELSE script_dir \o "/" \o CORE_IMAGE_FILE_DEFAULT]

\* os.path.isfile(path)
isfile(path) == path \in files

---------------------------------------------------------------------------
(* The steps of a method.  A method's body is the sequence of the steps    *)
(* it takes on the serial port, the console and the subprocess; each step  *)
(* is a record [op, arg].                                                  *)

Step(op, arg) == <<[op |-> op, arg |-> arg]>>

\* print(text)
Stdout(text) == Step("print", text)

\* time.sleep(1)
sleep == Step("sleep", "1")

\* self.__serial_port.read_until(delimiter.encode())
read_until(delimiter) == Step("read_until", delimiter)

\* Mutant of write_serial_cmd: the command is ended with CR LF.
write_serial_cmd_crlf(cmd, prefix) == Step("write", prefix \o cmd \o "\r\n")

\* write_serial_cmd(cmd, prefix): one write of prefix + cmd + "\r" (line 499).
\* Python's default prefix="" is passed explicitly by the callers below.
write_serial_cmd(cmd, prefix) == Step("write", prefix \o cmd \o "\r")

\* write_file_to_serial(file): the whole content of the file in one write
\* (lines 512-514).
write_file_to_serial(file) == Step("file", file)

\* wait_for_serial_read(cond, print_buffer): read_until(cond), and the buffer
\* printed when print_buffer is set (lines 528-533).  The buffer is what
\* arrived up to and including cond; the record of the print keeps cond.
wait_for_serial_read(cond, print_buffer) ==
    read_until(cond) \o (IF print_buffer THEN Step("print_buffer", cond) ELSE <<>>)

\* Mutant of flash_flash_writer: the flash writer is sent a second time.
flash_flash_writer_resend ==
    write_file_to_serial(flash_writer_image)
    \o wait_for_serial_read(">", args.debug)
    \o write_file_to_serial(flash_writer_image)
    \o wait_for_serial_read(">", args.debug)

flash_flash_writer ==
    write_file_to_serial(flash_writer_image)
    \o wait_for_serial_read(">", args.debug)

flash_erase_emmc ==
    write_serial_cmd("EM_E", "")
    \o wait_for_serial_read(">", args.debug)
    \o write_serial_cmd("1", "")
    \o wait_for_serial_read(">", args.debug)

setup_emmc_flash ==
    write_serial_cmd("EM_SECSD", "")
    \o wait_for_serial_read(":", args.debug)
    \o write_serial_cmd("b1", "")
    \o wait_for_serial_read(":", args.debug)
    \o write_serial_cmd("2", "")
    \o wait_for_serial_read(">", args.debug)
    \o write_serial_cmd("EM_SECSD", "")
    \o wait_for_serial_read(":", args.debug)
    \o write_serial_cmd("b3", "")
    \o wait_for_serial_read(":", args.debug)
    \o write_serial_cmd("8", "")

\* Mutant of flash_bl2_image_emmc: bl2 is sent right after its address,
\* without the wait for "please send !".
flash_bl2_image_emmc_no_wait ==
    write_serial_cmd("EM_W", "")
    \o wait_for_serial_read(">", args.debug)
    \o write_serial_cmd("1", "")
    \o wait_for_serial_read(":", args.debug)
    \o write_serial_cmd("1", "")
    \o wait_for_serial_read(":", args.debug)
    \o write_serial_cmd("11E00", "")
    \o write_file_to_serial(bl2_image)
    \o wait_for_serial_read("EM_W Complete!", args.debug)

flash_bl2_image_emmc ==
    write_serial_cmd("EM_W", "")
    \o wait_for_serial_read(">", args.debug)
    \o write_serial_cmd("1", "")
    \o wait_for_serial_read(":", args.debug)
    \o write_serial_cmd("1", "")
    \o wait_for_serial_read(":", args.debug)
    \o write_serial_cmd("11E00", "")
    \o wait_for_serial_read("please send !", args.debug)
    \o write_file_to_serial(bl2_image)
    \o wait_for_serial_read("EM_W Complete!", args.debug)

\* Mutant of flash_fip_image_emmc: the completion of the transfer is not
\* awaited.
flash_fip_image_emmc_no_complete ==
    write_serial_cmd("EM_W", "")
    \o wait_for_serial_read(")>", args.debug)
    \o write_serial_cmd("1", "")
    \o wait_for_serial_read(":", args.debug)
    \o write_serial_cmd("100", "")
    \o wait_for_serial_read(":", args.debug)
    \o write_serial_cmd("00000", "")
    \o wait_for_serial_read("please send !", args.debug)
    \o write_file_to_serial(fip_image)

flash_fip_image_emmc ==
    write_serial_cmd("EM_W", "")
    \o wait_for_serial_read(")>", args.debug)
    \o write_serial_cmd("1", "")
    \o wait_for_serial_read(":", args.debug)
    \o write_serial_cmd("100", "")
    \o wait_for_serial_read(":", args.debug)
    \o write_serial_cmd("00000", "")
    \o wait_for_serial_read("please send !", args.debug)
    \o write_file_to_serial(fip_image)
    \o wait_for_serial_read("EM_W Complete!", args.debug)

\* Mutant of flash_bootloader_emmc: the FIP image is flashed before bl2.
flash_bootloader_emmc_fip_first ==
    flash_erase_emmc
    \o setup_emmc_flash
    \o flash_fip_image_emmc
    \o flash_bl2_image_emmc

flash_bootloader_emmc ==
    flash_erase_emmc
    \o setup_emmc_flash
    \o flash_bl2_image_emmc
    \o flash_fip_image_emmc

\* Mutant of flash_erase_qspi: XCS is written without its prefix.
flash_erase_qspi_no_prefix ==
    write_serial_cmd("XCS", "")
    \o wait_for_serial_read("Clear OK?", args.debug)
    \o write_serial_cmd("y", "")
    \o wait_for_serial_read(">", args.debug)

flash_erase_qspi ==
    write_serial_cmd("XCS", "\r")
    \o wait_for_serial_read("Clear OK?", args.debug)
    \o write_serial_cmd("y", "")
    \o wait_for_serial_read(">", args.debug)

flash_bl2_image_qspi ==
    write_serial_cmd("XLS2", "")
    \o wait_for_serial_read("Please Input : H'", args.debug)
    \o write_serial_cmd("11E00", "")
    \o wait_for_serial_read("Please Input : H'", args.debug)
    \o write_serial_cmd("00000", "")
    \o wait_for_serial_read("please send !", args.debug)
    \o write_file_to_serial(bl2_image)

flash_fip_image_qspi ==
    write_serial_cmd("XLS2", "")
    \o wait_for_serial_read("Please Input : H'", args.debug)
    \o write_serial_cmd("00000", "")
    \o wait_for_serial_read("Please Input : H'", args.debug)
    \o write_serial_cmd("1D200", "")
    \o wait_for_serial_read("please send", args.debug)
    \o write_file_to_serial(fip_image)

flash_bootloader_qspi ==
    flash_erase_qspi
    \o flash_bl2_image_qspi
    \o flash_fip_image_qspi

\* Mutant of check_bootloader_files: the check of the FIP image is forgotten.
check_bootloader_files_no_fip ==
    IF ~isfile(flash_writer_image)
    THEN "Missing flash writer image: " \o flash_writer_image
    ELSE IF ~isfile(bl2_image)
    THEN "Missing bl2 image: " \o bl2_image
    ELSE ""

\* check_bootloader_files(): the message it dies with, "" when it returns.
check_bootloader_files ==
    IF ~isfile(flash_writer_image)
    THEN "Missing flash writer image: " \o flash_writer_image
    ELSE IF ~isfile(bl2_image)
    THEN "Missing bl2 image: " \o bl2_image
    ELSE IF ~isfile(fip_image)
    THEN "Missing FIP image: " \o fip_image
    ELSE ""

\* Mutant of write_bootloader: the test of the storage target is inverted.
write_bootloader_inverted ==
    Stdout("Please power on board. Make sure boot2 is strapped.")
    \o read_until("please send !")
    \o Stdout("Flashing bootloader, this will take a few minutes...")
    \o flash_flash_writer
    \o (IF ~args.qspi THEN flash_bootloader_qspi ELSE flash_bootloader_emmc)
    \o Stdout("Done flashing bootloader!")

\* Mutant of write_bootloader: the last print is missing.
write_bootloader_silent ==
    Stdout("Please power on board. Make sure boot2 is strapped.")
    \o read_until("please send !")
    \o Stdout("Flashing bootloader, this will take a few minutes...")
    \o flash_flash_writer
    \o (IF args.qspi THEN flash_bootloader_qspi ELSE flash_bootloader_emmc)

\* write_bootloader() after check_bootloader_files() returned (lines 252-268).
write_bootloader ==
    Stdout("Please power on board. Make sure boot2 is strapped.")
    \o read_until("please send !")
    \o Stdout("Flashing bootloader, this will take a few minutes...")
    \o flash_flash_writer
    \o (IF args.qspi THEN flash_bootloader_qspi ELSE flash_bootloader_emmc)
    \o Stdout("Done flashing bootloader!")

\* The check of the system image at the head of write_system_image()
\* (lines 438-442): the message it dies with, "" when it passes.
\* self.rootfs_image is always a string here (line 43), never None.
check_system_image ==
    IF ~isfile(rootfs_image)
    THEN "Missing system image: " \o rootfs_image
    ELSE ""

\* write_system_image() that starts fastboot without waiting for the lease.
write_system_image_no_dhcp_wait ==
    Stdout("Power on board. Make sure boot2 strap is NOT on.")
    \o Stdout("Waiting for device...")
    \o read_until("Hit any key to stop autoboot:")
    \o write_serial_cmd("y", "")
    \o sleep
    \o (IF Truthy(args.staticIP)
        THEN Stdout("Setting static IP: " \o args.staticIP)
             \o write_serial_cmd("\rsetenv ipaddr " \o args.staticIP, "")
        ELSE Stdout("Waiting for device to be assigned IP address...")
             \o write_serial_cmd("\rsetenv autoload no; dhcp", ""))
    \o sleep
    \o Stdout("Putting device into fastboot mode")
    \o write_serial_cmd("\rfastboot udp", "")
    \o read_until("Listening for fastboot command on ")
    \o Stdout("Device in fastboot mode")
    \o Step("readline", "")
    \o Step("popen", "")
    \o Step("check_returncode", "")

\* Mutant of write_system_image: "y" is written before autoboot is awaited.
write_system_image_y_first ==
    Stdout("Power on board. Make sure boot2 strap is NOT on.")
    \o Stdout("Waiting for device...")
    \o write_serial_cmd("y", "")
    \o read_until("Hit any key to stop autoboot:")
    \o sleep
    \o (IF Truthy(args.staticIP)
        THEN Stdout("Setting static IP: " \o args.staticIP)
             \o write_serial_cmd("\rsetenv ipaddr " \o args.staticIP, "")
        ELSE Stdout("Waiting for device to be assigned IP address...")
             \o write_serial_cmd("\rsetenv autoload no; dhcp", "")
             \o read_until("DHCP client bound"))
    \o sleep
    \o Stdout("Putting device into fastboot mode")
    \o write_serial_cmd("\rfastboot udp", "")
    \o read_until("Listening for fastboot command on ")
    \o Stdout("Device in fastboot mode")
    \o Step("readline", "")
    \o Step("popen", "")
    \o Step("check_returncode", "")

\* write_system_image() after __extract_adb() returned (lines 446-488).
write_system_image ==
    Stdout("Power on board. Make sure boot2 strap is NOT on.")
    \o Stdout("Waiting for device...")
    \o read_until("Hit any key to stop autoboot:")
    \o write_serial_cmd("y", "")
    \o sleep
    \o (IF Truthy(args.staticIP)
        THEN Stdout("Setting static IP: " \o args.staticIP)
             \o write_serial_cmd("\rsetenv ipaddr " \o args.staticIP, "")
        ELSE Stdout("Waiting for device to be assigned IP address...")
             \o write_serial_cmd("\rsetenv autoload no; dhcp", "")
             \o read_until("DHCP client bound"))
    \o sleep
    \o Stdout("Putting device into fastboot mode")
    \o write_serial_cmd("\rfastboot udp", "")
    \o read_until("Listening for fastboot command on ")
    \o Stdout("Device in fastboot mode")
    \o Step("readline", "")
    \o Step("popen", "")
    \o Step("check_returncode", "")

---------------------------------------------------------------------------
(* The line the board prints after the fastboot marker.                    *)

\* The most carriage returns before, and after, the address in that line.
MaxCR == 1

\* The address the board announces, character by character.
BoardAddress == <<"1", "0", ".", "0", ".", "0", ".", "5">>

RECURSIVE Repeat(_, _)
Repeat(c, n) == IF n = 0 THEN <<>> ELSE <<c>> \o Repeat(c, n - 1)

\* What readline() can return: bytes up to and including the line feed.
Lines ==
    { Repeat("\r", i) \o BoardAddress \o Repeat("\r", j) \o <<"\n">> :
        i \in 0..MaxCR, j \in 0..MaxCR }

\* str.replace(old, ""), for a single character old.
RECURSIVE replace(_, _)
replace(line, old) ==
    IF line = <<>> THEN <<>>
    ELSE IF Head(line) = old THEN replace(Tail(line), old)
    ELSE <<Head(line)>> \o replace(Tail(line), old)

\* The characters of a line as one string.
RECURSIVE Join(_)
Join(line) == IF line = <<>> THEN "" ELSE Head(line) \o Join(Tail(line))

\* Mutant of parse_device_ip_address: only the line feed is removed.
parse_device_ip_address_lf_only(line) == Join(replace(line, "\n"))

\* Lines 471-473: readline().decode().replace("\n", "").replace("\r", "")
parse_device_ip_address(line) == Join(replace(replace(line, "\n"), "\r"))

\* Lines 475-478: the command line handed to Popen.
fastboot_path == script_dir \o "/adb/platform-tools/fastboot"
fastboot_args ==
    "-s udp:" \o device_ip_address \o " -v flash rawimg " \o rootfs_image
fastboot_command == fastboot_path \o " " \o fastboot_args

---------------------------------------------------------------------------
(* __extract_adb (lines 536-557).  h is what it finds on the host:         *)
(* sys.platform, whether <script_dir>/platform-tools exists, and whether   *)
(* the archive of this platform is a file.                                 *)

Hosts == [platform : Platforms, platform_tools_exists : BOOLEAN,
          archive_isfile : BOOLEAN]

\* archive_path as lines 537-545 leave it ("" when no branch assigns it).
archive_path(h) ==
    IF h.platform_tools_exists THEN ""
    ELSE IF h.platform = "linux"
    THEN script_dir \o "/adb/platform-tools-latest-linux.zip"
    ELSE IF h.platform = "darwin"
    THEN script_dir \o "/adb/platform-tools-latest-darwin.zip"
    ELSE IF h.platform = "win32"
    THEN script_dir \o "/adb/platform-tools-latest-windows.zip"
    ELSE ""

\* The message __extract_adb dies with on host h, "" when it returns.
\* os.path.isfile("") is false.
extract_adb(h) ==
    IF ~h.platform_tools_exists /\ h.platform \notin {"linux", "darwin", "win32"}
    THEN "Unknown platform."
    ELSE IF archive_path(h) = "" \/ ~h.archive_isfile
    THEN "Can't find adb for your system. This util expects to be ran from the flash_rzboard.py dir."
    ELSE ""

---------------------------------------------------------------------------
(* The run.                                                                *)

\* The method running, for the record of who did what.
Running ==
    IF plan = <<>> \/ pc \in {"parse_args", "select", "setup_serial_port", "call"}
    THEN "__init__"
    ELSE Head(plan)

Event(kind, data) == [kind |-> kind, data |-> data, by |-> Running]

Log(kind, data) == trace' = Append(trace, Event(kind, data))

\* Mutant of die: the message on stderr, then sys.exit(0).
die_zero(msg, code) ==
    /\ Log("stderr", "Error: " \o msg)
    /\ exit_code' = <<0>>
    /\ pc' = "exited"

\* die(msg, code) (lines 560-565): the message on stderr, then sys.exit(code).
die(msg, code) ==
    /\ Log("stderr", "Error: " \o msg)
    /\ exit_code' = <<code>>
    /\ pc' = "exited"

\* Mutant of select_paths: the FIP override is left out of the conjunction
\* of lines 47-51.
select_paths_without_fip(a) ==
    LET bootloader_override ==
            /\ Truthy(a.flash_writer_image_override)
            /\ Truthy(a.bl2_image_override)
    IN  IF a.bootloader \/ bootloader_override
        THEN <<"write_bootloader">>
        ELSE IF a.rootfs \/ Truthy(a.rootfs_image_override)
        THEN <<"write_system_image">>
        ELSE IF a.full
        THEN <<"write_bootloader", "write_system_image">>
        ELSE <<>>

\* Mutant of select_paths: any one of the three bootloader overrides selects
\* the bootloader path ("or" for "and" in lines 47-51).
select_paths_any_override(a) ==
    LET bootloader_override ==
            \/ Truthy(a.flash_writer_image_override)
            \/ Truthy(a.bl2_image_override)
            \/ Truthy(a.fip_image_override)
    IN  IF a.bootloader \/ bootloader_override
        THEN <<"write_bootloader">>
        ELSE IF a.rootfs \/ Truthy(a.rootfs_image_override)
        THEN <<"write_system_image">>
        ELSE IF a.full
        THEN <<"write_bootloader", "write_system_image">>
        ELSE <<>>

\* Lines 47-63: the methods __init__ calls for namespace a, in order; <<>>
\* when it calls argparser.error() instead.
select_paths(a) ==
    LET bootloader_override ==
            /\ Truthy(a.flash_writer_image_override)
            /\ Truthy(a.bl2_image_override)
            /\ Truthy(a.fip_image_override)
    IN  IF a.bootloader \/ bootloader_override
        THEN <<"write_bootloader">>
        ELSE IF a.rootfs \/ Truthy(a.rootfs_image_override)
        THEN <<"write_system_image">>
        ELSE IF a.full
        THEN <<"write_bootloader", "write_system_image">>
        ELSE <<>>

\* The image paths on which a run with namespace a calls os.path.isfile():
\* those of the methods it calls (lines 425-431 in write_bootloader(), line
\* 441 in write_system_image()).  Whether any other path is a file cannot
\* be observed by the run, and the file system is varied over these only.
ImagesTested(exits, a) ==
    LET paths == handle_path_overrides(a)
        called == IF exits = "none"
                  THEN { select_paths(a)[i] : i \in 1..Len(select_paths(a)) }
                  ELSE {}
    IN  (IF "write_bootloader" \in called
         THEN {paths.flash_writer_image, paths.bl2_image, paths.fip_image}
         ELSE {})
        \cup
        (IF "write_system_image" \in called
         THEN {paths.rootfs_image}
         ELSE {})

Init ==
    /\ parse_exit \in ParseExits
    /\ args \in ArgSpace
    /\ files \in SUBSET ImagesTested(parse_exit, args)
    /\ flash_writer_image = script_dir \o "/" \o FLASH_WRITER_FILE_DEFAULT
    /\ bl2_image = script_dir \o "/" \o BL2_FILE_DEFAULT
    /\ fip_image = script_dir \o "/" \o FIP_FILE_DEFAULT
    /\ rootfs_image = script_dir \o "/" \o CORE_IMAGE_FILE_DEFAULT
    /\ pc = "parse_args"
    /\ plan = <<>>
    /\ script = <<>>
    /\ serial_port = "none"
    /\ waiting = ""
    /\ host = <<>>
    /\ device_ip_address = ""
    /\ returncode = <<>>
    /\ exit_code = <<>>
    /\ trace = <<>>

\* argparse_and_override_defaults (lines 100-230): parse_args() either ends
\* the run or returns the namespace, and handle_path_overrides() sets the paths.
ParseArgs ==
    /\ pc = "parse_args"
    /\ IF parse_exit \in {"help", "version"}
       THEN /\ Log("stdout", parse_exit)
            /\ exit_code' = <<0>>
            /\ pc' = "exited"
            /\ UNCHANGED <<flash_writer_image, bl2_image, fip_image, rootfs_image>>
       ELSE IF parse_exit = "unrecognized"
       THEN /\ Log("stderr", "usage: error: unrecognized arguments")
            /\ exit_code' = <<2>>
            /\ pc' = "exited"
            /\ UNCHANGED <<flash_writer_image, bl2_image, fip_image, rootfs_image>>
       ELSE /\ flash_writer_image' = handle_path_overrides(args).flash_writer_image
            /\ bl2_image' = handle_path_overrides(args).bl2_image
            /\ fip_image' = handle_path_overrides(args).fip_image
            /\ rootfs_image' = handle_path_overrides(args).rootfs_image
            /\ pc' = "select"
            /\ UNCHANGED <<exit_code, trace>>
    /\ UNCHANGED <<parse_exit, args, files, plan, script, serial_port, waiting,
                   host, device_ip_address, returncode>>

\* Mutant of SelectPaths: the final else branch with argparser.error() is
\* missing, and the port is set up whatever was selected.
SelectPaths_no_error ==
    /\ pc = "select"
    /\ plan' = select_paths(args)
    /\ pc' = "setup_serial_port"
    /\ UNCHANGED <<parse_exit, args, files, flash_writer_image, bl2_image,
                   fip_image, rootfs_image, script, serial_port, waiting, host,
                   device_ip_address, returncode, exit_code, trace>>

\* __init__, lines 47-77: the choice of the paths, or argparser.error(),
\* which prints the usage and the message on stderr and exits with status 2.
SelectPaths ==
    /\ pc = "select"
    /\ IF select_paths(args) = <<>>
       THEN /\ Log("stderr", "usage: error: Please specify which image(s) to flash.")
            /\ exit_code' = <<2>>
            /\ pc' = "exited"
            /\ UNCHANGED plan
       ELSE /\ plan' = select_paths(args)
            /\ pc' = "setup_serial_port"
            /\ UNCHANGED <<exit_code, trace>>
    /\ UNCHANGED <<parse_exit, args, files, flash_writer_image, bl2_image,
                   fip_image, rootfs_image, script, serial_port, waiting, host,
                   device_ip_address, returncode>>

\* __setup_serial_port (lines 233-244): serial.Serial() returns the open port
\* or raises, and then the run dies (the message is kept up to the text of
\* the exception).
SetupSerialPort ==
    /\ pc = "setup_serial_port"
    /\ \E opened \in BOOLEAN :
         IF opened
         THEN /\ serial_port' = "open"
              /\ Log("open", "")
              /\ pc' = "call"
              /\ UNCHANGED exit_code
         ELSE /\ die("Unable to open serial port.", 1)
              /\ UNCHANGED serial_port
    /\ UNCHANGED <<parse_exit, args, files, flash_writer_image, bl2_image,
                   fip_image, rootfs_image, plan, script, waiting, host,
                   device_ip_address, returncode>>

\* __init__ calls the next method of its branch (lines 55, 58, 61, 62).
Call ==
    /\ pc = "call"
    /\ plan # <<>>
    /\ Log("call", Head(plan))
    /\ pc' = Head(plan)
    /\ UNCHANGED <<parse_exit, args, files, flash_writer_image, bl2_image,
                   fip_image, rootfs_image, plan, script, serial_port, waiting,
                   host, device_ip_address, returncode, exit_code>>

\* write_bootloader(), line 250: check_bootloader_files() dies or returns,
\* and then the rest of the method runs.
CheckBootloaderFiles ==
    /\ pc = "write_bootloader"
    /\ IF check_bootloader_files # ""
       THEN /\ die(check_bootloader_files, 1)
            /\ UNCHANGED script
       ELSE /\ script' = write_bootloader
            /\ pc' = "run"
            /\ UNCHANGED <<exit_code, trace>>
    /\ UNCHANGED <<parse_exit, args, files, flash_writer_image, bl2_image,
                   fip_image, rootfs_image, plan, serial_port, waiting, host,
                   device_ip_address, returncode>>

\* write_system_image(), lines 438-442: the check of the system image.
CheckSystemImage ==
    /\ pc = "write_system_image"
    /\ IF check_system_image # ""
       THEN die(check_system_image, 1)
       ELSE /\ pc' = "extract_adb"
            /\ UNCHANGED <<exit_code, trace>>
    /\ UNCHANGED <<parse_exit, args, files, flash_writer_image, bl2_image,
                   fip_image, rootfs_image, plan, script, serial_port, waiting,
                   host, device_ip_address, returncode>>

\* write_system_image(), line 444: __extract_adb() dies, or extracts the
\* archive and makes fastboot executable, and the rest of the method runs.
ExtractAdb ==
    /\ pc = "extract_adb"
    /\ \E h \in Hosts :
         /\ host' = <<h>>
         /\ IF extract_adb(h) # ""
            THEN /\ die(extract_adb(h), 1)
                 /\ UNCHANGED script
            ELSE /\ trace' = trace
                        \o <<Event("extractall", archive_path(h))>>
                        \o (IF h.platform # "win32"
                            THEN <<Event("chmod", fastboot_path)>>
                            ELSE <<>>)
                 /\ script' = write_system_image
                 /\ pc' = "run"
                 /\ UNCHANGED exit_code
    /\ UNCHANGED <<parse_exit, args, files, flash_writer_image, bl2_image,
                   fip_image, rootfs_image, plan, serial_port, waiting,
                   device_ip_address, returncode>>

\* The next step of the running method is of kind op.
AtStep(op) ==
    /\ pc = "run"
    /\ script # <<>>
    /\ Head(script).op = op

\* What a step on the port or the console leaves alone.
StepFrame ==
    UNCHANGED <<parse_exit, args, files, flash_writer_image, bl2_image,
                fip_image, rootfs_image, pc, plan, serial_port, host,
                returncode, exit_code>>

\* self.__serial_port.write(command bytes), line 499.
SerialWrite ==
    /\ AtStep("write")
    /\ Log("write", Head(script).arg)
    /\ script' = Tail(script)
    /\ StepFrame
    /\ UNCHANGED <<waiting, device_ip_address>>

\* write_file_to_serial, lines 512-514: the file's bytes written to the port.
WriteFileToSerial ==
    /\ AtStep("file")
    /\ Log("file", Head(script).arg)
    /\ script' = Tail(script)
    /\ StepFrame
    /\ UNCHANGED <<waiting, device_ip_address>>

\* read_until(delimiter) is called: the read blocks.
ReadUntilCall ==
    /\ AtStep("read_until")
    /\ waiting = ""
    /\ Log("read_until", Head(script).arg)
    /\ waiting' = Head(script).arg
    /\ StepFrame
    /\ UNCHANGED <<script, device_ip_address>>

\* Mutant of ReadUntilReturn: the port has a timeout, and read_until() also
\* returns when it expires, with what arrived so far.
ReadUntilReturn_timeout ==
    /\ AtStep("read_until")
    /\ waiting # ""
    /\ \E arrived \in BOOLEAN :
           Log(IF arrived THEN "matched" ELSE "timeout", waiting)
    /\ waiting' = ""
    /\ script' = Tail(script)
    /\ StepFrame
    /\ UNCHANGED device_ip_address

\* The link delivers the delimiter and read_until() returns.  There is no
\* timeout: until then the run takes no other step.
ReadUntilReturn ==
    /\ AtStep("read_until")
    /\ waiting # ""
    /\ Log("matched", waiting)
    /\ waiting' = ""
    /\ script' = Tail(script)
    /\ StepFrame
    /\ UNCHANGED device_ip_address

\* readline() is called (line 472): it blocks until a line feed arrives.
ReadlineCall ==
    /\ AtStep("readline")
    /\ waiting = ""
    /\ Log("readline", "")
    /\ waiting' = "\n"
    /\ StepFrame
    /\ UNCHANGED <<script, device_ip_address>>

\* readline() returns a line, and lines 471-473 make the address of it.
ReadlineReturn ==
    /\ AtStep("readline")
    /\ waiting # ""
    /\ \E line \in Lines :
         /\ device_ip_address' = parse_device_ip_address(line)
         /\ Log("line", Join(line))
    /\ waiting' = ""
    /\ script' = Tail(script)
    /\ StepFrame

\* print(...) of a message, or of the buffer read (line 531).
Console ==
    /\ \/ AtStep("print")
       \/ AtStep("print_buffer")
    /\ Log("stdout", Head(script).arg)
    /\ script' = Tail(script)
    /\ StepFrame
    /\ UNCHANGED <<waiting, device_ip_address>>

\* time.sleep(1), lines 453 and 464.
Sleep ==
    /\ AtStep("sleep")
    /\ Log("sleep", Head(script).arg)
    /\ script' = Tail(script)
    /\ StepFrame
    /\ UNCHANGED <<waiting, device_ip_address>>

\* Lines 475-485: the fastboot subprocess runs to its end.
PopenFastboot ==
    /\ AtStep("popen")
    /\ Log("popen", fastboot_command)
    /\ \E rc \in ReturnCodes : returncode' = <<rc>>
    /\ script' = Tail(script)
    /\ UNCHANGED <<parse_exit, args, files, flash_writer_image, bl2_image,
                   fip_image, rootfs_image, pc, plan, serial_port, waiting,
                   host, device_ip_address, exit_code>>

\* Mutant of fastboot_failed: a negative status (a signal) passes.
fastboot_failed_positive(rc) == rc > 0

\* Line 487: the subprocess failed.
fastboot_failed(rc) == rc # 0

\* Lines 487-488.
CheckReturncode ==
    /\ AtStep("check_returncode")
    /\ IF fastboot_failed(returncode[1])
       THEN /\ die("Failed to flash rootfs.", 1)
            /\ UNCHANGED script
       ELSE /\ script' = Tail(script)
            /\ UNCHANGED <<pc, exit_code, trace>>
    /\ UNCHANGED <<parse_exit, args, files, flash_writer_image, bl2_image,
                   fip_image, rootfs_image, plan, serial_port, waiting, host,
                   device_ip_address, returncode>>

\* The running method returns to __init__.
Return ==
    /\ pc = "run"
    /\ script = <<>>
    /\ Log("return", Head(plan))
    /\ plan' = Tail(plan)
    /\ pc' = "call"
    /\ UNCHANGED <<parse_exit, args, files, flash_writer_image, bl2_image,
                   fip_image, rootfs_image, script, serial_port, waiting, host,
                   device_ip_address, returncode, exit_code>>

\* __init__ returns, and main() with it (flash_rzboard.py): exit status 0.
Exit ==
    /\ pc = "call"
    /\ plan = <<>>
    /\ exit_code' = <<0>>
    /\ pc' = "exited"
    /\ UNCHANGED <<parse_exit, args, files, flash_writer_image, bl2_image,
                   fip_image, rootfs_image, plan, script, serial_port, waiting,
                   host, device_ip_address, returncode, trace>>

Next ==
    \/ ParseArgs
    \/ SelectPaths
    \/ SetupSerialPort
    \/ Call
    \/ CheckBootloaderFiles
    \/ CheckSystemImage
    \/ ExtractAdb
    \/ SerialWrite
    \/ WriteFileToSerial
    \/ ReadUntilCall
    \/ ReadUntilReturn
    \/ ReadlineCall
    \/ ReadlineReturn
    \/ Console
    \/ Sleep
    \/ PopenFastboot
    \/ CheckReturncode
    \/ Return
    \/ Exit

Spec == Init /\ [][Next]_vars

---------------------------------------------------------------------------
(* Reading the history.                                                    *)

\* The positions of the events of kind k, and of those that carry data d.
At(k) == { i \in 1..Len(trace) : trace[i].kind = k }
AtData(k, d) == { i \in At(k) : trace[i].data = d }

\* Bytes written to the link: commands and file payloads.
WritePositions == At("write") \cup At("file")

\* Blocking reads issued on the link.
ReadPositions == At("read_until") \cup At("readline")

\* Any use of the link.
LinkPositions == WritePositions \cup ReadPositions \cup At("matched") \cup At("line")

\* The methods __init__ has called so far, in order.
Calls ==
    LET called == SelectSeq(trace, LAMBDA e : e.kind = "call")
    IN  [i \in 1..Len(called) |-> called[i].data]

\* The run has ended, and what it ended with.
Exited == pc = "exited"
DiedWith(msg) ==
    /\ Exited
    /\ trace # <<>>
    /\ trace[Len(trace)].kind = "stderr"
    /\ trace[Len(trace)].data = "Error: " \o msg

Min(S) == CHOOSE x \in S : \A y \in S : x <= y
Max(S) == CHOOSE x \in S : \A y \in S : x >= y

\* Every position of S comes before every position of T.
Before(S, T) == \A i \in S, j \in T : i < j

\* write_bootloader() has reported completion.
BootloaderDone == AtData("stdout", "Done flashing bootloader!") # {}

---------------------------------------------------------------------------
(* C1: for each of the three bootloader images, if the image is absent     *)
(* when write_bootloader() runs, the run has ended in the fatal "Missing   *)
(* ... image" error with exit status 1, no byte was written to the link    *)
(* and no read was issued on it.                                           *)

\* write_bootloader() has been called and check_bootloader_files() has run.
BootloaderChecked ==
    /\ AtData("call", "write_bootloader") # {}
    /\ pc # "write_bootloader"

MissingBootloaderImage ==
    { "Missing flash writer image: " \o flash_writer_image,
      "Missing bl2 image: " \o bl2_image,
      "Missing FIP image: " \o fip_image }

C1_MissingBootloaderImageAborts ==
    \A image \in {flash_writer_image, bl2_image, fip_image} :
        (BootloaderChecked /\ ~isfile(image)) =>
            /\ \E msg \in MissingBootloaderImage : DiedWith(msg)
            /\ exit_code = <<1>>
            /\ LinkPositions = {}

\* Only the FIP image is absent, and write_bootloader() has run.
C1_Witness ==
    /\ BootloaderChecked
    /\ isfile(flash_writer_image)
    /\ isfile(bl2_image)
    /\ ~isfile(fip_image)
    /\ DiedWith("Missing FIP image: " \o fip_image)

---------------------------------------------------------------------------
(* C2: when the run ends with the missing-system-image error, no byte has  *)
(* been written to the link at any earlier point of the run.               *)

C2_MissingRootfsBeforeAnyWrite ==
    DiedWith("Missing system image: " \o rootfs_image) => WritePositions = {}

---------------------------------------------------------------------------
(* C3: the link is opened at most once, before any read or write on it,    *)
(* and only in a run in which a path was selected.                         *)

ModeFlagGiven == args.bootloader \/ args.rootfs \/ args.full

\* C3 as claimed: only a mode flag makes the run open the link.
C3_OpenedOnlyWithModeFlag ==
    /\ Cardinality(At("open")) <= 1
    /\ Before(At("open"), LinkPositions)
    /\ (LinkPositions # {} => At("open") # {})
    /\ (At("open") # {} => ModeFlagGiven)

\* What selects a path besides the mode flags: --image_rootfs, or all three
\* of --image_writer, --image_bl2 and --image_fip.
OverrideSelects ==
    \/ args.rootfs_image_override # NotGiven
    \/ /\ args.flash_writer_image_override # NotGiven
       /\ args.bl2_image_override # NotGiven
       /\ args.fip_image_override # NotGiven

\* C3 as amended: the link is opened at most once, before any read or write, and
\* only if a mode flag or an image override selected a path; it is opened
\* exactly once in every run that got past __setup_serial_port, and never in
\* a run where nothing selects a path.
C3_OpenedOncePerSelectedRun ==
    /\ Cardinality(At("open")) <= 1
    /\ Before(At("open"), LinkPositions)
    /\ (LinkPositions # {} => At("open") # {})
    /\ (At("open") # {} => (parse_exit = "none" /\ (ModeFlagGiven \/ OverrideSelects)))
    /\ (At("call") # {} => Cardinality(At("open")) = 1)
    /\ (Exited /\ parse_exit = "none" /\ (ModeFlagGiven \/ OverrideSelects)) =>
           \/ Cardinality(At("open")) = 1
           \/ DiedWith("Unable to open serial port.")
    /\ (serial_port = "open") = (At("open") # {})

\* The link is open in a run that was given --image_rootfs and no mode flag.
C3_Witness ==
    /\ ~ModeFlagGiven
    /\ args.rootfs_image_override # NotGiven
    /\ serial_port = "open"
    /\ WritePositions # {}

---------------------------------------------------------------------------
(* C4: one of four outcomes is executed: the bootloader path only, the     *)
(* rootfs path only, the bootloader path followed by the rootfs path, or   *)
(* neither; "neither" ends with a usage message and a non-zero exit,       *)
(* without opening the link.                                               *)

Outcomes ==
    { <<>>, <<"write_bootloader">>, <<"write_system_image">>,
      <<"write_bootloader", "write_system_image">> }

\* p is the beginning of q.
IsPrefix(p, q) == Len(p) <= Len(q) /\ \A i \in 1..Len(p) : p[i] = q[i]

\* The run ended without __init__ trying to open the link or calling a method.
EndedWithNeither ==
    /\ Exited
    /\ Calls = <<>>
    /\ ~DiedWith("Unable to open serial port.")

UsageErrors ==
    { "usage: error: Please specify which image(s) to flash.",
      "usage: error: unrecognized arguments" }

UsageError ==
    /\ trace # <<>>
    /\ trace[Len(trace)].kind = "stderr"
    /\ trace[Len(trace)].data \in UsageErrors
    /\ exit_code # <<>>
    /\ exit_code[1] # 0
    /\ serial_port = "none"
    /\ At("open") = {}

\* The methods called are those of one outcome, in its order, and all of them
\* when the run ends with status 0.
OneOutcome ==
    /\ \E o \in Outcomes : IsPrefix(Calls, o)
    /\ (Exited /\ exit_code = <<0>> /\ Calls # <<>>) =>
           /\ Calls \in Outcomes
           /\ Cardinality(At("return")) = Len(Calls)

\* C4 as claimed, for every command line.
C4_NeitherIsUsageError ==
    /\ OneOutcome
    /\ (EndedWithNeither => UsageError)

\* C4 as amended: for every command line that does not ask for the help or the
\* version; those two print on stdout and exit with status 0, and do not open
\* the link either.
C4_NeitherIsUsageErrorUnlessHelp ==
    /\ OneOutcome
    /\ (EndedWithNeither /\ parse_exit \notin {"help", "version"}) => UsageError
    /\ (EndedWithNeither /\ parse_exit \in {"help", "version"}) =>
           /\ exit_code = <<0>>
           /\ At("stderr") = {}
           /\ At("open") = {}

\* A run with no mode flag and no override ended in the usage error of __init__.
C4_Witness ==
    /\ parse_exit = "none"
    /\ ~ModeFlagGiven
    /\ ~OverrideSelects
    /\ EndedWithNeither
    /\ UsageError

---------------------------------------------------------------------------
(* C5: whenever --full is given, the run calls write_bootloader() first    *)
(* and write_system_image() after it has completed; the deployer uses the  *)
(* link only after the flasher reported completion, and a --full run that  *)
(* succeeds has run both.                                                  *)

\* Positions of the uses of the link made by write_system_image().
DeployerLinkPositions ==
    { i \in LinkPositions : trace[i].by = "write_system_image" }

C5_FullRunsBoth ==
    (parse_exit = "none" /\ args.full) =>
        /\ IsPrefix(Calls, <<"write_bootloader", "write_system_image">>)
        /\ (DeployerLinkPositions # {} =>
               /\ BootloaderDone
               /\ Before(AtData("stdout", "Done flashing bootloader!"),
                         DeployerLinkPositions))
        /\ (Exited /\ exit_code = <<0>>) =>
               Calls = <<"write_bootloader", "write_system_image">>

---------------------------------------------------------------------------
(* C6: a run given more than one of --bootloader, --rootfs and --full is   *)
(* rejected: it opens no link, calls no method and writes nothing.         *)

ModeFlagCount ==
    (IF args.bootloader THEN 1 ELSE 0)
    + (IF args.rootfs THEN 1 ELSE 0)
    + (IF args.full THEN 1 ELSE 0)

C6_ModeFlagsExclusive ==
    (parse_exit = "none" /\ ModeFlagCount > 1) =>
        /\ At("open") = {}
        /\ Calls = <<>>
        /\ WritePositions = {}
        /\ (Exited => exit_code # <<0>>)

---------------------------------------------------------------------------
(* C7: on the eMMC target, EM_E, EM_SECSD and EM_W are written in that     *)
(* order (the first EM_E before the first EM_SECSD, every EM_SECSD before  *)
(* the first EM_W) and the bl2 file is sent before the FIP file; a run     *)
(* whose reads were all answered has written all of them.                  *)

Written(cmd) == AtData("write", cmd \o "\r")
Sent(file) == AtData("file", file)

C7_EmmcOrder ==
    ~args.qspi =>
        /\ (Written("EM_SECSD") # {} =>
               /\ Written("EM_E") # {}
               /\ Min(Written("EM_E")) < Min(Written("EM_SECSD")))
        /\ (Written("EM_W") # {} => Written("EM_SECSD") # {})
        /\ Before(Written("EM_SECSD"), Written("EM_W"))
        /\ (Sent(fip_image) # {} => Sent(bl2_image) # {})
        /\ Before(Sent(bl2_image), Sent(fip_image))
        /\ (BootloaderDone =>
               /\ Written("EM_E") # {}
               /\ Written("EM_SECSD") # {}
               /\ Written("EM_W") # {}
               /\ Cardinality(Sent(bl2_image)) = 1
               /\ Cardinality(Sent(fip_image)) = 1)

\* The eMMC bootloader run has completed.
C7_Witness ==
    /\ ~args.qspi
    /\ BootloaderDone
    /\ Max(Written("EM_SECSD")) < Min(Written("EM_W"))
    /\ Max(Sent(bl2_image)) < Min(Sent(fip_image))

---------------------------------------------------------------------------
(* C8: on the QSPI target, XCS is written with a leading carriage return,  *)
(* then XLS2 exactly twice, and EM_E, EM_SECSD and EM_W are never written. *)

C8_QspiCommands ==
    args.qspi =>
        /\ Written("EM_E") = {}
        /\ Written("EM_SECSD") = {}
        /\ Written("EM_W") = {}
        /\ Written("XCS") = {}
        /\ Cardinality(Written("XLS2")) <= 2
        /\ (Written("XLS2") # {} => Written("\rXCS") # {})
        /\ Before(Written("\rXCS"), Written("XLS2"))
        /\ (BootloaderDone =>
               /\ Cardinality(Written("\rXCS")) = 1
               /\ Cardinality(Written("XLS2")) = 2)

\* The QSPI bootloader run has completed.
C8_Witness ==
    /\ args.qspi
    /\ BootloaderDone
    /\ Cardinality(Written("XLS2")) = 2

---------------------------------------------------------------------------
(* C9: fastboot is invoked at most once, only after the marker "Listening  *)
(* for fastboot command on " was read, with the arguments                  *)
(* -s udp:<address> -v flash rawimg <rootfs path>, where the address is    *)
(* the line read right after the marker without its CR and LF; a deployer  *)
(* that returned has invoked it exactly once.                              *)

FastbootMarker == "Listening for fastboot command on "

C9_FastbootInvokedOnce ==
    /\ Cardinality(At("popen")) <= 1
    /\ \A i \in At("readline") :
           \E j \in AtData("matched", FastbootMarker) :
               /\ j < i
               /\ \A k \in LinkPositions : ~(j < k /\ k < i)
    /\ (At("line") # {} => device_ip_address = Join(BoardAddress))
    /\ \A i \in At("popen") :
           /\ \E j \in AtData("matched", FastbootMarker) : j < i
           /\ \E j \in At("line") : j < i
           /\ trace[i].data =
                  script_dir \o "/adb/platform-tools/fastboot"
                  \o " " \o "-s udp:" \o Join(BoardAddress)
                  \o " -v flash rawimg " \o rootfs_image
    /\ (AtData("return", "write_system_image") # {} => Cardinality(At("popen")) = 1)

\* fastboot was invoked after a line that carried carriage returns.
C9_Witness ==
    /\ At("popen") # {}
    /\ AtData("line", Join(<<"\r">> \o BoardAddress \o <<"\r", "\n">>)) # {}
    /\ AtData("return", "write_system_image") # {}

---------------------------------------------------------------------------
(* C10: when the fastboot subprocess ends with a non-zero status the run   *)
(* dies with "Failed to flash rootfs." and a non-zero exit status; when it *)
(* ends with status 0, write_system_image() returns without error.         *)

\* The subprocess has ended and line 487 has examined its status.
ReturncodeChecked ==
    /\ returncode # <<>>
    /\ ~AtStep("check_returncode")

C10_FastbootStatusDecides ==
    ReturncodeChecked =>
        IF returncode[1] # 0
        THEN /\ DiedWith("Failed to flash rootfs.")
             /\ exit_code # <<>>
             /\ exit_code[1] # 0
             /\ AtData("return", "write_system_image") = {}
        ELSE /\ At("stderr") = {}
             /\ pc \in {"run", "call", "exited"}
             /\ (pc # "run" => AtData("return", "write_system_image") # {})
             /\ (Exited => exit_code = <<0>>)

\* The subprocess was killed by a signal after a complete handshake.
C10_Witness ==
    /\ ReturncodeChecked
    /\ returncode[1] < 0
    /\ AtData("matched", FastbootMarker) # {}
    /\ DiedWith("Failed to flash rootfs.")

---------------------------------------------------------------------------
(* The run under its own scheduling.  The process always takes its next    *)
(* step; that a delimiter or a line arrives on the link is up to the       *)
(* board, and nothing guarantees it.                                       *)

\* The steps the process takes by itself.
ProgramStep ==
    \/ ParseArgs
    \/ SelectPaths
    \/ SetupSerialPort
    \/ Call
    \/ CheckBootloaderFiles
    \/ CheckSystemImage
    \/ ExtractAdb
    \/ SerialWrite
    \/ WriteFileToSerial
    \/ ReadUntilCall
    \/ ReadlineCall
    \/ Console
    \/ Sleep
    \/ PopenFastboot
    \/ CheckReturncode
    \/ Return
    \/ Exit

FairSpec == Spec /\ WF_vars(ProgramStep)

---------------------------------------------------------------------------
(* C11: in the deployer, a read for "DHCP client bound" or for "Listening  *)
(* for fastboot command on " that is never answered ends in a fatal error: *)
(* the read does not wait forever.                                         *)

DhcpBound == "DHCP client bound"

C11_DeployerReadsTimeOut ==
    /\ (waiting = DhcpBound) ~> (AtData("matched", DhcpBound) # {} \/ Exited)
    /\ (waiting = FastbootMarker)
           ~> (AtData("matched", FastbootMarker) # {} \/ Exited)

---------------------------------------------------------------------------
(* C12: with a static IP configured the deployer writes the setenv ipaddr  *)
(* command, never writes the DHCP command and never waits for "DHCP client *)
(* bound"; with none it writes "setenv autoload no; dhcp" and writes the   *)
(* "fastboot udp" command only after "DHCP client bound" has been read.    *)

\* The bytes of the three commands as lines 458, 461 and 468 put them on
\* the link.
IpaddrCommand(ip) == "\rsetenv ipaddr " \o ip \o "\r"
DhcpCommand == "\rsetenv autoload no; dhcp\r"
FastbootCommand == "\rfastboot udp\r"

C12_StaticOrDhcp ==
    IF Truthy(args.staticIP)
    THEN /\ AtData("write", DhcpCommand) = {}
         /\ AtData("read_until", DhcpBound) = {}
         /\ waiting # DhcpBound
         /\ \A i \in AtData("write", FastbootCommand) :
                \E j \in AtData("write", IpaddrCommand(args.staticIP)) : j < i
    ELSE /\ \A ip \in StaticIPs : AtData("write", IpaddrCommand(ip)) = {}
         /\ \A i \in AtData("write", FastbootCommand) :
                \E k \in AtData("write", DhcpCommand) :
                    \E j \in AtData("matched", DhcpBound) : k < j /\ j < i

\* Without a static address, fastboot mode was requested after the lease.
C12_Witness ==
    /\ ~Truthy(args.staticIP)
    /\ AtData("write", DhcpCommand) # {}
    /\ AtData("write", FastbootCommand) # {}

---------------------------------------------------------------------------
(* C13: whenever the process ends (success, missing-file abort, usage      *)
(* error, subprocess failure or I/O error) the serial link the run opened  *)
(* has been closed and no image file is still open.  Image files are       *)
(* opened and closed inside write_file_to_serial() (the with block of      *)
(* lines 510-512), so none is open between two steps; the link is the      *)
(* resource that outlives a step.                                          *)

C13_ReleasedOnExit == Exited => serial_port # "open"

---------------------------------------------------------------------------
(* C14: the exit status of the process is 0 exactly when every method      *)
(* __init__ selected ran to completion, and it is not 0 after any fatal    *)
(* condition: a missing image, a serial port that could not be opened, an  *)
(* unknown platform or a missing tool archive, a fastboot subprocess that  *)
(* ended with a status other than 0, or no mode selected.                  *)

\* The methods __init__ selected: none when parse_args() left the process.
Selected == IF parse_exit = "none" THEN select_paths(args) ELSE <<>>

\* The methods that returned, in order.
Returns ==
    LET returned == SelectSeq(trace, LAMBDA e : e.kind = "return")
    IN  [i \in 1..Len(returned) |-> returned[i].data]

\* The fatal conditions, read from the inputs of the run and from what it
\* went through, not from what it printed.
NoModeSelected == parse_exit = "none" /\ select_paths(args) = <<>>
PortNotOpened == Exited /\ Selected # <<>> /\ serial_port = "none"
MissingImage ==
    \/ /\ BootloaderChecked
       /\ \E image \in {flash_writer_image, bl2_image, fip_image} : ~isfile(image)
    \/ /\ AtData("call", "write_system_image") # {}
       /\ pc # "write_system_image"
       /\ ~isfile(rootfs_image)
NoFastbootTool == host # <<>> /\ extract_adb(host[1]) # ""
FastbootFailed == returncode # <<>> /\ returncode[1] # 0

FatalCondition ==
    \/ parse_exit = "unrecognized"
    \/ NoModeSelected
    \/ PortNotOpened
    \/ MissingImage
    \/ NoFastbootTool
    \/ FastbootFailed

C14_ExitStatus ==
    Exited =>
        /\ Len(exit_code) = 1
        /\ (exit_code[1] = 0) <=> (Returns = Selected /\ ~FatalCondition)
        /\ FatalCondition => exit_code[1] # 0
        /\ ~FatalCondition => Returns = Selected

\* A run that flashed the bootloader and died in the deployer, for want of
\* the tool archive.
C14_Witness ==
    /\ Exited
    /\ Returns = <<"write_bootloader">>
    /\ Selected = <<"write_bootloader", "write_system_image">>
    /\ NoFastbootTool
    /\ exit_code = <<1>>

---------------------------------------------------------------------------
(* C15: every command token is written to the link as the token followed   *)
(* by exactly one carriage return, byte for byte, with one carriage return *)
(* in front of it only for XCS and "fastboot udp" (as claimed); the code   *)
(* also puts one in front of "setenv ipaddr <addr>" and of                 *)
(* "setenv autoload no; dhcp" (as amended).                                *)

Tokens ==
    { "EM_E", "EM_SECSD", "EM_W", "XLS2", "y", "1", "2", "8", "b1", "b3",
      "100", "00000", "11E00", "1D200" }

SetenvTokens ==
    { "setenv ipaddr " \o ip : ip \in { a \in StaticIPs : Truthy(a) } }
    \cup { "setenv autoload no; dhcp" }

\* The byte strings on the link when the tokens of plain are written bare
\* and those of prefixed after a carriage return.
CommandBytes(plain, prefixed) ==
    { t \o "\r" : t \in plain } \cup { "\r" \o t \o "\r" : t \in prefixed }

\* C15 as claimed: the setenv commands are written bare.
C15_LeadingCROnlyXcsFastboot ==
    \A i \in At("write") :
        trace[i].data \in CommandBytes(Tokens \cup SetenvTokens,
                                       {"XCS", "fastboot udp"})

\* C15 as amended: the setenv commands too are written after a carriage
\* return.
C15_LeadingCRAlsoSetenv ==
    \A i \in At("write") :
        trace[i].data \in CommandBytes(Tokens,
                                       {"XCS", "fastboot udp"} \cup SetenvTokens)

\* A deployer that went the DHCP way and returned.
C15_Witness ==
    /\ AtData("write", "\rsetenv autoload no; dhcp\r") # {}
    /\ AtData("write", "\rfastboot udp\r") # {}
    /\ Written("y") # {}
    /\ AtData("return", "write_system_image") # {}

---------------------------------------------------------------------------
(* C16: on the eMMC target, between any two consecutive command writes of  *)
(* write_bootloader(), from the first EM_E to the final offset 00000 (the  *)
(* step from the last EXT_CSD value 8 to the EM_W after it included),      *)
(* there is at least one completed blocking read for a delimiter.          *)

\* The command writes of the bootloader sequence, by position.
BootloaderWrites == { i \in At("write") : trace[i].by = "write_bootloader" }

C16_EveryEmmcWriteGated ==
    ~args.qspi =>
        \A i \in BootloaderWrites : \A j \in BootloaderWrites :
            (i < j /\ \A k \in BootloaderWrites : ~(i < k /\ k < j)) =>
                \E r \in At("matched") : i < r /\ r < j

---------------------------------------------------------------------------
(* The monitor of the eMMC dialogue: one terminating prompt for every      *)
(* command it receives, in the order it receives them.  The prompts are    *)
(* the delimiters the flasher awaits after each command (lines 302-362);   *)
(* the exchange EM_SECSD / b3 / 8 is completed as EM_SECSD / b1 / 2 is, by *)
(* the command prompt.                                                     *)

\* The prompt that ends the monitor's reply to what was written at position
\* w of the history; position 0 stands for power-on, which the boot ROM
\* answers with its request for the flash writer (line 252).
MonitorPrompt(w) ==
    IF w = 0 THEN "please send !"
    ELSE IF trace[w].kind = "file"
    THEN (IF trace[w].data = flash_writer_image THEN ">" ELSE "EM_W Complete!")
    ELSE IF trace[w].data \in {"EM_E\r", "EM_W\r"} THEN ")>"
    ELSE IF trace[w].data \in {"EM_SECSD\r", "b1\r", "b3\r", "100\r"} THEN ":"
    ELSE IF trace[w].data \in {"2\r", "8\r"} THEN ">"
    ELSE IF trace[w].data \in {"11E00\r", "00000\r"} THEN "please send !"
    ELSE IF trace[w].data = "1\r"
    THEN (IF \E e \in AtData("write", "EM_E\r") :
                 e < w /\ \A k \in WritePositions : ~(e < k /\ k < w)
          THEN ">"
          ELSE ":")
    ELSE ""

\* read_until(delimiter) returns at the first prompt that holds delimiter.
Satisfies(prompt, delimiter) ==
    \/ prompt = delimiter
    \/ prompt = ")>" /\ delimiter = ">"

\* The completed reads of the bootloader sequence, in order.
BootloaderMatches ==
    SelectSeq([i \in 1..Len(trace) |-> i],
              LAMBDA i : trace[i].kind = "matched" /\ trace[i].by = "write_bootloader")

\* The write whose reply satisfies a read for delimiter, when the replies up
\* to that of consumed have been read already; past the end when none does.
SatisfiedBy(delimiter, consumed) ==
    LET replies == { w \in {0} \cup WritePositions :
                         w > consumed /\ Satisfies(MonitorPrompt(w), delimiter) }
    IN  IF replies = {} THEN Len(trace) + 1 ELSE Min(replies)

\* The last write before position r, 0 when there is none.
LastWriteBefore(r) ==
    Max({0} \cup { w \in WritePositions : w < r })

\* The reads of the sequence reads that a reply to an earlier command than
\* the last one written satisfied.
RECURSIVE StaleReads(_, _)
StaleReads(reads, consumed) ==
    IF reads = <<>> THEN {}
    ELSE LET r == Head(reads)
             by == SatisfiedBy(trace[r].data, consumed)
         IN  (IF by # LastWriteBefore(r) THEN {r} ELSE {})
             \cup StaleReads(Tail(reads), by)

---------------------------------------------------------------------------
(* C17: against a monitor that emits exactly one terminating prompt for    *)
(* every command it receives, in order, every read of the eMMC sequence is *)
(* satisfied by the reply to the command written last; the ">" awaited     *)
(* after the first EM_W is not satisfied by the prompt that completes the  *)
(* exchange EM_SECSD / b3 / 8.                                             *)

C17_ReadsSatisfiedByLastCommand ==
    ~args.qspi => StaleReads(BootloaderMatches, 0 - 1) = {}

---------------------------------------------------------------------------
(* C18: on both targets every transmission of an image file (flash writer, *)
(* bl2, FIP) comes right after a completed blocking read for               *)
(* "please send !" ("please send" for the FIP on QSPI): that read is the   *)
(* last use of the link before the file, with no write in between.         *)

C18_FileAfterPleaseSend ==
    \A f \in At("file") :
        \E m \in At("matched") :
            /\ m < f
            /\ \A k \in LinkPositions : ~(m < k /\ k < f)
            /\ \/ trace[m].data = "please send !"
               \/ /\ args.qspi
                  /\ trace[f].data = fip_image
                  /\ trace[m].data = "please send"

\* All three files have gone out on QSPI, the FIP after "please send".
C18_Witness ==
    /\ args.qspi
    /\ Sent(flash_writer_image) # {}
    /\ Sent(bl2_image) # {}
    /\ Sent(fip_image) # {}
    /\ AtData("matched", "please send") # {}

---------------------------------------------------------------------------
(* C19: in a bootloader run that reaches completion, on either target,     *)
(* each of the three image files is transmitted exactly once, in the order *)
(* flash writer, bl2, FIP, and no step of the sequence is ever repeated:   *)
(* the uses of the link are, one for one, the steps of the sequence.       *)

\* The files write_bootloader() has sent, in order.
FilesSent ==
    LET sent == SelectSeq(trace, LAMBDA e : e.kind = "file" /\ e.by = "write_bootloader")
    IN  [i \in 1..Len(sent) |-> sent[i].data]

LinkOps == {"write", "file", "read_until"}

\* The writes and reads write_bootloader() has issued, in order.
BootloaderLinkSteps ==
    LET done == SelectSeq(trace, LAMBDA e : e.kind \in LinkOps /\ e.by = "write_bootloader")
    IN  [i \in 1..Len(done) |-> Step(done[i].kind, done[i].data)[1]]

\* The writes and reads of the sequence, in order.
BootloaderSequence == SelectSeq(write_bootloader, LAMBDA s : s.op \in LinkOps)

C19_EachFileOnceInOrder ==
    /\ IsPrefix(FilesSent, <<flash_writer_image, bl2_image, fip_image>>)
    /\ IsPrefix(BootloaderLinkSteps, BootloaderSequence)
    /\ (BootloaderDone =>
            /\ FilesSent = <<flash_writer_image, bl2_image, fip_image>>
            /\ BootloaderLinkSteps = BootloaderSequence)

\* The eMMC sequence has run to its end.
C19_Witness ==
    /\ ~args.qspi
    /\ BootloaderDone
    /\ Len(FilesSent) = 3
    /\ AtData("return", "write_bootloader") # {}

---------------------------------------------------------------------------
(* C20: while a delimiter awaited by the bootloader sequence has not       *)
(* arrived, the flasher is blocked at that read: it has not reported       *)
(* completion, has not reached write_system_image() and has not ended, and *)
(* the only step it can take is the return of that read with the           *)
(* delimiter; nothing else is written to the link.  A delimiter that never *)
(* arrives leaves it there for ever.                                       *)

\* write_bootloader() is inside read_until().
BlockedInBootloader == waiting # "" /\ Running = "write_bootloader"

C20_BlockedAtRead ==
    /\ [](BlockedInBootloader =>
              /\ ~Exited
              /\ ~BootloaderDone
              /\ AtData("call", "write_system_image") = {}
              /\ AtData("return", "write_bootloader") = {})
    /\ [][BlockedInBootloader =>
              /\ trace' = Append(trace, Event("matched", waiting))
              /\ waiting' = ""
              /\ pc' = pc
              /\ plan' = plan]_vars

\* A --full run blocked in the eMMC sequence, commands already written.
C20_Witness ==
    /\ BlockedInBootloader
    /\ args.full
    /\ Calls = <<"write_bootloader">>
    /\ Written("EM_W") # {}
    /\ waiting = "EM_W Complete!"

---------------------------------------------------------------------------
(* The run on a link that answers: the process always takes its next step, *)
(* and a delimiter or a line that is awaited does arrive in the end.       *)

ResponsiveLinkSpec ==
    /\ FairSpec
    /\ WF_vars(ReadUntilReturn)
    /\ WF_vars(ReadlineReturn)

---------------------------------------------------------------------------
(* C21: with all three bootloader images present and a link that supplies  *)
(* every awaited delimiter in the end, write_bootloader(), once called,    *)
(* reports "Done flashing bootloader!" and returns, on the eMMC target and *)
(* on the QSPI target.                                                     *)

BootloaderImagesPresent ==
    \A image \in {flash_writer_image, bl2_image, fip_image} : isfile(image)

\* args.qspi is either value in the states on the left: both targets.
C21_BootloaderTerminates ==
    (AtData("call", "write_bootloader") # {} /\ BootloaderImagesPresent)
        ~> (BootloaderDone /\ AtData("return", "write_bootloader") # {})

\* The QSPI sequence was called with the three images there and has returned.
C21_Witness ==
    /\ args.qspi
    /\ BootloaderImagesPresent
    /\ BootloaderDone
    /\ AtData("return", "write_bootloader") # {}

---------------------------------------------------------------------------
(* C22: the handshake of the deployer has a fixed order: "y" is written    *)
(* only after "Hit any key to stop autoboot:" has been read; the network   *)
(* command (static IP or DHCP) only after "y"; "fastboot udp" only after   *)
(* the network command; and the address line is read only after            *)
(* "Listening for fastboot command on " has been read.                     *)

\* The positions at which write_system_image() did what.
ByDeployer(S) == { i \in S : trace[i].by = "write_system_image" }

NetworkCommands ==
    ByDeployer(AtData("write", DhcpCommand))
    \cup UNION { ByDeployer(AtData("write", IpaddrCommand(ip))) : ip \in StaticIPs }

\* Each position of T has a position of S before it.
OnlyAfter(S, T) == \A j \in T : \E i \in S : i < j

C22_HandshakeOrder ==
    /\ OnlyAfter(ByDeployer(AtData("matched", "Hit any key to stop autoboot:")),
                 ByDeployer(Written("y")))
    /\ OnlyAfter(ByDeployer(Written("y")), NetworkCommands)
    /\ OnlyAfter(NetworkCommands, ByDeployer(AtData("write", FastbootCommand)))
    /\ OnlyAfter(ByDeployer(AtData("matched", FastbootMarker)),
                 ByDeployer(At("readline")))
    /\ OnlyAfter(ByDeployer(AtData("write", FastbootCommand)),
                 ByDeployer(AtData("read_until", FastbootMarker)))
    /\ ByDeployer(At("write")) \subseteq
           ByDeployer(Written("y")) \cup NetworkCommands
           \cup ByDeployer(AtData("write", FastbootCommand))

\* The address line has been read on a board given a static address.
C22_Witness ==
    /\ Truthy(args.staticIP)
    /\ ByDeployer(At("line")) # {}
    /\ NetworkCommands # {}

---------------------------------------------------------------------------
(* C23: on the QSPI target, every write to the link after the confirmation *)
(* of the erase (a command, an offset or an image payload) is separated    *)
(* from the next write by at least one completed blocking read; the second *)
(* XLS2 is written only after a read that follows the bl2 payload, and     *)
(* completion is reported only after a read that follows the FIP payload.  *)

\* Commands and payloads write_bootloader() has put on the link.
BootloaderLinkWrites == { i \in WritePositions : trace[i].by = "write_bootloader" }

\* A read completed between positions i and j.
ReadBetween(i, j) == \E r \in At("matched") : i < r /\ r < j

C23_EveryQspiWriteGated ==
    args.qspi =>
        /\ \A i \in BootloaderLinkWrites : \A j \in BootloaderLinkWrites :
               (/\ \E y \in Written("y") : y <= i
                /\ i < j
                /\ \A k \in BootloaderLinkWrites : ~(i < k /\ k < j))
                   => ReadBetween(i, j)
        /\ \A d \in AtData("stdout", "Done flashing bootloader!") :
               \E f \in Sent(fip_image) : f < d /\ ReadBetween(f, d)

---------------------------------------------------------------------------
(* C24: on the eMMC target "Done flashing bootloader!" is reported only    *)
(* after "EM_W Complete!" has been read twice, once after the bl2 payload  *)
(* and once after the FIP payload, and the second EM_W is written only     *)
(* after the first "EM_W Complete!" has been read.                         *)

Completions == AtData("matched", "EM_W Complete!")

\* The payload whose transfer the read completed at position m follows:
\* the last file sent before m.
PayloadBefore(m) == trace[Max({ f \in At("file") : f < m })].data

C24_CompleteTwiceBeforeDone ==
    ~args.qspi =>
        /\ \A m \in Completions :
               /\ \E f \in At("file") : f < m
               /\ \A w \in At("write") :
                      ~(Max({ f \in At("file") : f < m }) < w /\ w < m)
        /\ \A w \in Written("EM_W") :
               w # Min(Written("EM_W")) => \E m \in Completions : m < w
        /\ \A d \in AtData("stdout", "Done flashing bootloader!") :
               /\ Cardinality(Completions) = 2
               /\ Max(Completions) < d
               /\ PayloadBefore(Min(Completions)) = bl2_image
               /\ PayloadBefore(Max(Completions)) = fip_image
               /\ Min(Completions) < Max(Written("EM_W"))

\* The eMMC sequence is done, both transfers completed.
C24_Witness ==
    /\ ~args.qspi
    /\ BootloaderDone
    /\ Cardinality(Completions) = 2
    /\ Cardinality(Written("EM_W")) = 2

---------------------------------------------------------------------------
(* C25: the storage target is fixed for the run and is eMMC unless --qspi  *)
(* is given: without --qspi the bootloader run writes the eMMC commands    *)
(* and never XCS or XLS2; with --qspi it writes the QSPI commands and      *)
(* never EM_E, EM_SECSD or EM_W; no run writes commands of both.           *)

EmmcVocabulary == Written("EM_E") \cup Written("EM_SECSD") \cup Written("EM_W")
QspiVocabulary == Written("XCS") \cup Written("\rXCS") \cup Written("XLS2")

C25_OneStorageTarget ==
    /\ [](/\ (~args.qspi => QspiVocabulary = {})
          /\ (args.qspi => EmmcVocabulary = {})
          /\ (EmmcVocabulary = {} \/ QspiVocabulary = {})
          /\ (BootloaderDone =>
                  IF args.qspi
                  THEN Written("\rXCS") # {} /\ Written("XLS2") # {}
                  ELSE /\ Written("EM_E") # {}
                       /\ Written("EM_SECSD") # {}
                       /\ Written("EM_W") # {}))
    /\ [][args'.qspi = args.qspi]_vars

\* A --full run on the default target that went on to the deployer.
C25_Witness ==
    /\ ~args.qspi
    /\ EmmcVocabulary # {}
    /\ Calls = <<"write_bootloader", "write_system_image">>

---------------------------------------------------------------------------
(* C26: the platform tools are extracted only if not already extracted: in *)
(* a run where they are present the deployer skips the extraction and goes *)
(* on to the serial handshake instead of failing; on an unknown host       *)
(* platform it fails fatally before any byte is written to the link.       *)

\* __extract_adb() has run, on a host of this kind.
ExtractedOn(h) == host = <<h>>

C26_ExtractOnlyIfAbsent ==
    \A h \in Hosts :
        ExtractedOn(h) =>
            /\ (h.platform_tools_exists /\ h.platform \in {"linux", "darwin", "win32"}) =>
                   /\ At("extractall") = {}
                   /\ \A e \in ByDeployer(At("stderr")) :
                          trace[e].data = "Error: Failed to flash rootfs."
                   /\ pc \in {"run", "call", "exited"}
                   /\ (Exited => ByDeployer(LinkPositions) # {})
            /\ (h.platform \notin {"linux", "darwin", "win32"}) =>
                   /\ Exited
                   /\ exit_code # <<0>>
                   /\ ByDeployer(At("stderr")) # {}
                   /\ ByDeployer(LinkPositions) = {}

---------------------------------------------------------------------------
(* C27: with no mode flag and no rootfs override, a command line with only *)
(* one or two of the three bootloader image overrides (--image_writer,     *)
(* --image_bl2, --image_fip) ends in the usage error without the serial    *)
(* link being opened; with all three it selects the bootloader path.       *)

BootloaderOverridesGiven ==
    Cardinality({ o \in { <<1, args.flash_writer_image_override>>,
                          <<2, args.bl2_image_override>>,
                          <<3, args.fip_image_override>> } : Truthy(o[2]) })

\* parse_args() returned a namespace with overrides only, and __init__ has
\* made its choice.
OverridesOnlyChosen ==
    /\ parse_exit = "none"
    /\ ~args.bootloader /\ ~args.rootfs /\ ~args.full
    /\ ~Truthy(args.rootfs_image_override)
    /\ pc \notin {"parse_args", "select"}

C27_AllThreeOverridesOrUsageError ==
    OverridesOnlyChosen =>
        /\ BootloaderOverridesGiven \in {1, 2} =>
               /\ Exited
               /\ UsageError
               /\ Calls = <<>>
               /\ serial_port = "none"
        /\ BootloaderOverridesGiven = 3 =>
               /\ ~UsageError
               /\ plan \in {<<"write_bootloader">>, <<>>}
               /\ IsPrefix(Calls, <<"write_bootloader">>)
               /\ (At("open") # {} \/ pc = "setup_serial_port"
                   \/ DiedWith("Unable to open serial port."))
               /\ (Exited /\ exit_code = <<0>> => Calls = <<"write_bootloader">>)

\* Two of the three overrides were given, and the run ended with the usage.
C27_Witness ==
    /\ OverridesOnlyChosen
    /\ BootloaderOverridesGiven = 2
    /\ ~Truthy(args.fip_image_override)
    /\ UsageError

---------------------------------------------------------------------------
(* C28: the image paths are resolved with a fixed precedence: when         *)
(* --image_path is given, all four are <image_path>/<default file name>,   *)
(* whatever individual override is given with it; otherwise each           *)
(* individual override replaces its default in the script directory, and   *)
(* an image without override keeps that default.                           *)

\* parse_args() returned and handle_path_overrides() has run.
PathsResolved == parse_exit = "none" /\ pc # "parse_args"

\* The path of one image, given its override and the name of its default.
Resolves(path, override, default) ==
    IF Truthy(args.image_path) THEN path = args.image_path \o "/" \o default
    ELSE IF Truthy(override) THEN path = override
    ELSE path = script_dir \o "/" \o default

C28_PathPrecedence ==
    PathsResolved =>
        /\ Resolves(flash_writer_image, args.flash_writer_image_override,
                    FLASH_WRITER_FILE_DEFAULT)
        /\ Resolves(bl2_image, args.bl2_image_override, BL2_FILE_DEFAULT)
        /\ Resolves(fip_image, args.fip_image_override, FIP_FILE_DEFAULT)
        /\ Resolves(rootfs_image, args.rootfs_image_override,
                    CORE_IMAGE_FILE_DEFAULT)

\* --image_path was given together with an override of bl2, and the
\* bootloader sequence has sent the bl2 of the image directory.
C28_Witness ==
    /\ PathsResolved
    /\ Truthy(args.image_path)
    /\ Truthy(args.bl2_image_override)
    /\ Sent(args.image_path \o "/" \o BL2_FILE_DEFAULT) # {}

===========================================================================
